---- MODULE Spec2Model ----
(***************************************************************************)
(* Video generation orchestrator of img-studio: the polling state machine  *)
(* of src/app/(studio)/generate/page.tsx together with the video submit    *)
(* handler of src/app/ui/generate-components/GenerateForm.tsx.             *)
(*                                                                         *)
(* Execution model.  The page is a React component; everything runs on one *)
(* event loop.  A step of the model is one event-loop task: a timer        *)
(* callback, the continuation of an awaited server action, or a UI event   *)
(* handler.  A state update that changes a dependency of the polling       *)
(* effect (pollingOperation, appContext) is taken together with the        *)
(* re-render it causes: the cleanup of the previous effect run followed by *)
(* the new effect run.                                                     *)
(*                                                                         *)
(* Timers.  setTimeout returns a handle; the set `timers` holds the        *)
(* pending timers, each with the operation its `poll` closure captured.    *)
(* pollingTimeoutRef keeps the handle it was last assigned even after that *)
(* timer has fired (the code never clears it on firing); such a handle is  *)
(* written FIRED: it is truthy and clearTimeout on it does nothing.        *)
(*                                                                         *)
(* Specifications.                                                         *)
(*   Spec, LiveSpec  the polling state machine, with appContext changes    *)
(*   GenerateSpec    the same page with form edits, image generation and   *)
(*                   the recorders' saveGenerationMetadata calls returning *)
(*   BackoffSpec     the arithmetic of the poll delays                     *)
(*   HistorySpec     the history recorders of the generate and edit pages  *)
(*                   and the history store                                 *)
(***************************************************************************)
EXTENDS Integers, FiniteSets, Sequences, TLC

(* ---- bounds of the model ---- *)
MaxOps == 2
MaxCtxChanges == 1
(* Math.random() is drawn from {0, 1/RandomSteps, ..., (RandomSteps-1)/RandomSteps} *)
RandomSteps == 8
(* history recorder: invocations of a recorder, and items per generation *)
MaxRuns == 2
MaxItems == 2

(* ---- constants of generate/page.tsx ---- *)
INITIAL_POLLING_INTERVAL_MS == 6000
MAX_POLLING_INTERVAL_MS == 60000
MAX_POLLING_ATTEMPTS == 30
(* BACKOFF_FACTOR = 1.2, kept as the fraction 12/10 *)
BACKOFF_FACTOR_NUM == 12
BACKOFF_FACTOR_DEN == 10
(* JITTER_FACTOR = 0.2, kept as the fraction 2/10 *)
JITTER_FACTOR_NUM == 2
JITTER_FACTOR_DEN == 10

(* the null of pollingOperation / pollingTimeoutRef, and an empty video list *)
NULL == 0
(* a timer handle whose timer has already fired *)
FIRED == -1

Ops == 1..MaxOps

VARIABLES
  generationMode,      \* 'Generate an Image' | 'Generate a Video'
  isLoading,           \* useState(false)
  generationErrorMsg,  \* useState(''), abstracted to the kind of message
  generatedVideos,     \* NULL for [], else the operation whose videos are shown
  pollingOperation,    \* NULL or the operation being polled
  pollingTimeoutRef,   \* NULL, FIRED or the id of a pending timer
  pollingAttemptsRef,  \* useRef(0)
  pollingIntervalRef,  \* useRef(INITIAL_POLLING_INTERVAL_MS), whole ms
  timers,              \* pending setTimeout(poll, ...) timers: [id, op]
  inflight,            \* per operation, the getVideoGenerationStatus calls awaiting a result
  opState,             \* per operation, its place in the state machine of the operation
  historyCalls,        \* per operation, the number of saveVideoToHistory invocations
  statusChecks,        \* status checks issued since the last handleVideoPollingStart
  ctxChanges,          \* appContext changes so far (bounded)
  generatedImages,     \* NULL for [], else the image request whose images are shown
  formData,            \* the current content of the form (react-hook-form values)
  submittedForm,       \* per operation, the formData its submit handler was called with
  checkedForm,         \* per operation, the formData passed with its latest status check
  pendingSaves         \* saveGenerationMetadata calls of the recorders awaiting a result

(* the delay arithmetic of the poll, which the state machine above leaves out *)
VARIABLES
  scheduledDelay,      \* the delay given to the last setTimeout(poll, delay), 0 before the first
  scheduledBase        \* pollingIntervalRef.current when that delay was computed

(* the history recorder and the history store *)
VARIABLES
  historyDir,          \* the records of .generation-history, one per session directory
  sidecars,            \* the items whose metadata JSON was uploaded next to the media
  recorder,            \* the recorder invocation under way, or the last one
  runs                 \* recorder invocations so far (bounded)

(* the error channel of the form: a backend error and the text shown for it *)
VARIABLES
  modelOptions,        \* generationFields.model.options: the models the dropdown lists
  errorPath,           \* where the last request stands: none, submission, status, image
  reportedError,       \* the error text the backend returned last
  shownError           \* the text handed to onNewErrorMsg / setGenerationErrorMsg for it

(* the files of src/app/api/generation-metadata.tsx, as its callers see them *)
VARIABLES
  historyExists,       \* the history directory exists
  earlier,             \* the sessions an earlier use of the application left, by their names lo..hi
  entries,             \* what the calls followed here created in the history directory, by name
  storeClock,          \* saveGenerationMetadata calls so far: the source of modification times
  savedRecords,        \* the records saved with success and not deleted or cleared since, as the callers were told
  lastCall             \* the last call of the store: its argument, the path it gave to fs, what it returned

(* the image cache of ImageCacheStorage: the localStorage item and one      *)
(* mounted component                                                       *)
VARIABLES
  cacheExists,         \* localStorage has the item imgstudio_image_cache
  storedCache,         \* the list stored in it (empty when there is no item)
  mounted,             \* an ImageCacheStorage component is mounted
  cachedImages,        \* its cachedImages state
  cacheClock,          \* images created so far: the source of Date.now() and of the ids
  contentsSeen,        \* the distinct base64 contents handed in so far are 1..contentsSeen
  removedIds           \* the ids of the images removed by deleteImage or clearImageCache

pollVars == <<generationMode, isLoading, generationErrorMsg, generatedVideos,
              pollingOperation, pollingTimeoutRef, pollingAttemptsRef, pollingIntervalRef,
              timers, inflight, opState, historyCalls, statusChecks, ctxChanges,
              generatedImages, formData, submittedForm, checkedForm, pendingSaves>>

backoffVars == <<scheduledDelay, scheduledBase>>

(* what the polling state machine does not look at *)
historyVars == <<historyDir, sidecars, recorder, runs>>

errorVars == <<modelOptions, errorPath, reportedError, shownError>>

(* what neither the page's state machine, the backoff nor the recorders look at *)
storeVars == <<historyExists, earlier, entries, storeClock, savedRecords, lastCall>>

cacheVars == <<cacheExists, storedCache, mounted, cachedImages, cacheClock, contentsSeen, removedIds>>

otherVars == <<errorVars, storeVars, cacheVars>>

auxVars == <<backoffVars, historyVars, otherVars>>

vars == <<pollVars, auxVars>>

uiVars == <<generationMode, isLoading, generationErrorMsg, generatedVideos, generatedImages>>

(* what only the form, the status check and the recorder touch *)
formVars == <<formData, submittedForm, checkedForm, pendingSaves>>

Min(a, b) == IF a <= b THEN a ELSE b

(* the outcomes of one getVideoGenerationStatus call *)
StatusResults == {"notdone", "videos", "error", "noresult", "throw"}

(* the outcomes of generateVideo *)
SubmitResults == {"ok", "error", "invalid"}

(* terminal states of an operation *)
DoneStates == {"success", "error", "noresult", "timeout", "transport"}
EndStates == DoneStates \cup {"cancelled"}

(* ---- helpers ---- *)

(* clearTimeout(h): a pending timer with that handle is removed *)
ClearTimeout(ts, h) == {t \in ts : t.id # h}

(* setTimeout: the new handle is one no pending timer has *)
NewTimerId(ts) == CHOOSE i \in 1..(Cardinality(ts) + 1) : \A t \in ts : t.id # i

(* the backoff without its Math.min cap *)
NextInterval_NoCap(cur) == (cur * BACKOFF_FACTOR_NUM) \div BACKOFF_FACTOR_DEN

(* Math.min(pollingIntervalRef.current * BACKOFF_FACTOR, MAX_POLLING_INTERVAL_MS) *)
NextInterval(cur) ==
  Min((cur * BACKOFF_FACTOR_NUM) \div BACKOFF_FACTOR_DEN, MAX_POLLING_INTERVAL_MS)

(* bookkeeping of the per-operation state machine: operation o (the one the *)
(* running handler belongs to) moves to `kind` unless it has ended already; *)
(* the handler also drops whatever other operation is current, which is     *)
(* thereby cancelled.                                                       *)
EndOps(o, kind) ==
  [c \in Ops |->
     IF c = o /\ opState[c] \in {"unused", "submitting", "imaging", "polling"} THEN kind
     ELSE IF c = pollingOperation /\ opState[c] = "polling" THEN "cancelled"
     ELSE opState[c]]

(* ---- JavaScript values, by kind ---- *)
UNDEFINED == "undefined"
(* a key the object or its JSON text does not have *)
ABSENT == "absent"
Falsy == {"undefined", "null", "", "0", "false"}
Truthy(v) == v \notin Falsy
(* a || b *)
OrElse(a, b) == IF Truthy(a) THEN a ELSE b
(* an object literal over a fixed key set: the keys it does not name are absent *)
Literal(keys, obj) == [k \in keys |-> IF k \in DOMAIN obj THEN obj[k] ELSE ABSENT]
(* JSON.stringify: a key whose value is undefined is left out, every other value is kept *)
JsonStringify(obj) == [k \in DOMAIN obj |-> IF obj[k] = UNDEFINED THEN ABSENT ELSE obj[k]]

(* GenerationMetadata.parameters and .performance *)
ParamKeys == {"userQuery", "aspectRatio", "resolution", "duration", "sampleCount",
              "isVideoWithAudio", "style", "secondary_style", "mode", "width", "height", "ratio"}
PerfKeys == {"tokensUsed", "inputTokens", "outputTokens", "totalTokens", "executionTimeMs",
             "startTime", "endTime"}
(* the performance fields other than the two timestamps *)
MetricKeys == PerfKeys \ {"startTime", "endTime"}

(* what a backend reports with a generated item (item.metadata): nothing,   *)
(* the execution time only, everything with a measured time of 0, everything; *)
(* a cost is reported only together with token counts                       *)
Report(tok, ms, cost) ==
  [tokensUsed |-> tok, inputTokens |-> tok, outputTokens |-> tok, totalTokens |-> tok,
   executionTimeMs |-> ms, estimatedCost |-> cost]
Reports == {Report(UNDEFINED, UNDEFINED, UNDEFINED), Report(UNDEFINED, "value", UNDEFINED),
            Report("value", "0", "value"), Report("value", "value", "value")}

(* the inputs of a recorder invocation: the submitted form (video), the     *)
(* fields of the image (edit page), and the backend's report                *)
Input(form, image, report) == [form |-> form, image |-> image, report |-> report]
NoForm == [style |-> UNDEFINED, secondary_style |-> UNDEFINED, isVideoWithAudio |-> UNDEFINED]
NoImage == [width |-> UNDEFINED, height |-> UNDEFINED, ratio |-> UNDEFINED, gcsUri |-> UNDEFINED]
(* the form contents followed: no style chosen and no audio, a style chosen, with or without audio *)
Forms == {[style |-> st, secondary_style |-> st, isVideoWithAudio |-> au] :
            st \in {"", "value"}, au \in {"false", "value"}}
(* the form as the page first shows it *)
DefaultForm == [style |-> "", secondary_style |-> "", isVideoWithAudio |-> "false"]
VideoInputs == {Input(f, NoImage, r) : f \in Forms, r \in Reports}
(* an image as the backend returns it *)
FullImage == [width |-> "value", height |-> "value", ratio |-> "value", gcsUri |-> "value"]
ImageInputs == {Input(NoForm, FullImage, r) : r \in Reports}
EditInputs ==
  {Input(NoForm, [width |-> w, height |-> w, ratio |-> ra, gcsUri |-> g], r) :
     w \in {UNDEFINED, "value"}, ra \in {"", "value"}, g \in {"", "value"},
     r \in {Report(UNDEFINED, UNDEFINED, UNDEFINED), Report("value", "value", "value")}}

(* no recorder has run yet *)
IdleRecorder ==
  [page |-> "none", run |-> 0, n |-> 0, input |-> Input(NoForm, NoImage, Report(UNDEFINED, UNDEFINED, UNDEFINED)),
   idx |-> 0, phase |-> "idle", mirrorOn |-> FALSE, last |-> "none"]

(* ---- error texts, by what the handlers look at ---- *)
(* the models a backend error can name *)
Models == {"m1", "m2"}
(* leading 'Error: ' prefixes a reported text can carry *)
MaxPrefixes == 2
(* a text: its leading 'Error: ' prefixes and what follows them -- any other *)
(* text, the 'Publisher Model `projects/../models/<model>` not found.' text, *)
(* or the access-request text naming a model by its label or by its value    *)
Message(n, body, model, named) == [prefixes |-> n, body |-> body, model |-> model, named |-> named]
NoMessage == Message(0, "", "none", "none")
BackendErrors ==
  {Message(n, "other", "none", "none") : n \in 0..MaxPrefixes}
    \cup {Message(n, "notfound", m, "none") : n \in 0..MaxPrefixes, m \in Models}

(* ---- the history store: paths and records ---- *)
(* loadGenerationHistory: sessionStats.slice(0, 30) *)
HISTORY_LIMIT == 30
(* calls of saveGenerationMetadata / saveMediaToLocal followed *)
MaxStoreCalls == 2
(* path segments: a directory name is a positive number, '.' (or an empty  *)
(* segment) and '..' are the two special ones; an id is the sequence of    *)
(* the segments its '/' separate, the empty string the empty sequence      *)
DOT == 0
DOTDOT == -1
(* the names of the sessions saved before, and two names not used before *)
N1 == HISTORY_LIMIT + 1
N2 == HISTORY_LIMIT + 2
SessionIds == {<<N1>>, <<N2>>, <<>>, <<DOTDOT>>}
(* a path relative to the history directory, normalized: `up` levels above *)
(* it, then `down` into the named directories                              *)
HistoryDirPath == [up |-> 0, down |-> <<>>]
(* a record as far as the store is concerned *)
Record(id, ts, cost) == [id |-> id, timestamp |-> ts, cost |-> cost]
(* a directory without a readable metadata.json *)
NoMeta == Record(<<>>, -1, "unreadable")
(* what an earlier use of the application left: the sessions lo..hi, each  *)
(* with its record, saved in the order of their timestamps                 *)
NoEarlier == [lo |-> 1, hi |-> 0]
EarlierRecords(iv) == {Record(<<i>>, i, UNDEFINED) : i \in iv.lo..iv.hi}
EarlierEntries(iv) ==
  {[name |-> i, mtime |-> i, meta |-> Record(<<i>>, i, ABSENT)] : i \in iv.lo..iv.hi}
NoCall == [fn |-> "none", id |-> <<>>, path |-> HistoryDirPath, success |-> TRUE, data |-> <<>>]

(* const MAX_CACHE_SIZE = 5 *)
MAX_CACHE_SIZE == 5
(* the distinct base64 contents handed in, and the images created *)
MaxImages == 6
MaxCacheAdds == 7
(* a CachedImage; Date.now() gives both its id and its timestamp *)
CachedImage(n, base64Image) == [id |-> n, base64Image |-> base64Image, timestamp |-> n]

TypeOK ==
  /\ generationMode \in {"Image", "Video"}
  /\ isLoading \in BOOLEAN
  /\ generationErrorMsg \in {"", "timeout", "status", "backend", "noresult", "submit", "form",
                             "warning"}
  /\ generatedVideos \in {NULL} \cup Ops
  /\ pollingOperation \in {NULL} \cup Ops
  /\ pollingTimeoutRef \in {NULL, FIRED} \cup {t.id : t \in timers}
  /\ pollingAttemptsRef \in 0..MAX_POLLING_ATTEMPTS
  /\ pollingIntervalRef \in INITIAL_POLLING_INTERVAL_MS..MAX_POLLING_INTERVAL_MS
  /\ \A t \in timers : t.op \in Ops
  /\ inflight \in [Ops -> Nat]
  /\ opState \in [Ops -> {"unused", "submitting", "imaging", "imaged", "rejected", "polling"}
                           \cup EndStates]
  /\ historyCalls \in [Ops -> Nat]
  /\ statusChecks \in Nat
  /\ ctxChanges \in 0..MaxCtxChanges
  /\ generatedImages \in {NULL} \cup Ops
  /\ formData \in Forms
  /\ submittedForm \in [Ops -> Forms \cup {NoForm}]
  /\ checkedForm \in [Ops -> Forms \cup {NoForm}]
  /\ \A p \in pendingSaves : p.op \in Ops /\ p.form \in Forms \cup {NoForm}
  /\ scheduledDelay \in Nat
  /\ scheduledBase \in Nat
  /\ \A rec \in historyDir : rec.id \in Nat \X (0..MaxItems)
  /\ sidecars \subseteq (1..MaxRuns) \X (1..MaxItems)
  /\ recorder.page \in {"none", "video", "image", "edit"}
  /\ recorder.phase \in {"idle", "save", "mirror", "done"}
  /\ runs \in Nat
  /\ modelOptions \subseteq Models
  /\ errorPath \in {"none", "submission", "status", "image"}
  /\ reportedError \in BackendErrors \cup {NoMessage}
  /\ shownError.prefixes \in 0..(MaxPrefixes + 1)
  /\ shownError.body \in {"", "other", "notfound", "access"}
  /\ historyExists \in BOOLEAN
  /\ \A e \in entries : e.mtime \in Nat /\ e.name \in Int
  /\ storeClock \in 0..MaxStoreCalls
  /\ \A r \in savedRecords : r.timestamp \in Nat
  /\ earlier.lo \in Nat /\ earlier.hi \in Nat
  /\ lastCall.fn \in {"none", "save", "load", "delete", "clear"}
  /\ lastCall.success \in BOOLEAN
  /\ cacheExists \in BOOLEAN
  /\ mounted \in BOOLEAN
  /\ cacheClock \in 0..MaxCacheAdds
  /\ contentsSeen \in 0..MaxImages
  /\ removedIds \subseteq 1..MaxCacheAdds
  /\ \A p \in 1..Len(storedCache) : storedCache[p].base64Image \in 1..MaxImages
  /\ \A p \in 1..Len(cachedImages) : cachedImages[p].id \in 1..MaxCacheAdds

PageInit ==
  /\ generationMode = "Image"
  /\ isLoading = FALSE
  /\ generationErrorMsg = ""
  /\ generatedVideos = NULL
  /\ pollingOperation = NULL
  /\ pollingTimeoutRef = NULL
  /\ pollingAttemptsRef = 0
  /\ pollingIntervalRef = INITIAL_POLLING_INTERVAL_MS
  /\ timers = {}
  /\ inflight = [o \in Ops |-> 0]
  /\ opState = [o \in Ops |-> "unused"]
  /\ historyCalls = [o \in Ops |-> 0]
  /\ statusChecks = 0
  /\ ctxChanges = 0
  /\ generatedImages = NULL
  /\ formData = DefaultForm
  /\ submittedForm = [o \in Ops |-> NoForm]
  /\ checkedForm = [o \in Ops |-> NoForm]
  /\ pendingSaves = {}
  /\ scheduledDelay = 0
  /\ scheduledBase = 0
  /\ historyDir = {}
  /\ sidecars = {}
  /\ recorder = IdleRecorder
  /\ runs = 0

StoreVarsInit ==
  /\ historyExists = FALSE
  /\ earlier = NoEarlier
  /\ entries = {}
  /\ storeClock = 0
  /\ savedRecords = {}
  /\ lastCall = NoCall

CacheVarsInit ==
  /\ cacheExists = FALSE
  /\ storedCache = <<>>
  /\ mounted = FALSE
  /\ cachedImages = <<>>
  /\ cacheClock = 0
  /\ contentsSeen = 0
  /\ removedIds = {}

ErrorVarsInit ==
  /\ modelOptions = Models
  /\ errorPath = "none"
  /\ reportedError = NoMessage
  /\ shownError = NoMessage

Init ==
  /\ PageInit
  /\ ErrorVarsInit
  /\ StoreVarsInit
  /\ CacheVarsInit

(* ---- stopPolling, as the part of a handler that runs it ---- *)
(* ts, h: the pending timers and the ref as the handler sees them *)
stopPolling(ts, h) ==
  /\ timers' = ClearTimeout(ts, h)
  /\ pollingTimeoutRef' = NULL
  /\ pollingOperation' = NULL

(* ---- handleNewError(msg), with the operation o it reports on ---- *)
handleNewError(msg, o, kind) ==
  /\ generationErrorMsg' = msg
  /\ stopPolling(timers, pollingTimeoutRef)
  /\ isLoading' = FALSE
  /\ opState' = EndOps(o, kind)

(* ---- handleVideoPollingStart(o, metadata) and the effect run it causes ---- *)
handleVideoPollingStart(o) ==
  LET ts1 == ClearTimeout(timers, pollingTimeoutRef)
      id  == NewTimerId(ts1)
  IN /\ pollingAttemptsRef' = 0
     /\ pollingIntervalRef' = INITIAL_POLLING_INTERVAL_MS
     /\ pollingOperation' = o
     /\ timers' = ts1 \cup {[id |-> id, op |-> o]}
     /\ pollingTimeoutRef' = id
     /\ statusChecks' = 0

(* ---- onVideoSubmit: the part up to the await of generateVideo ---- *)
NextOp == CHOOSE o \in Ops : opState[o] = "unused" /\ \A c \in Ops : c < o => opState[c] # "unused"

(* client-side validation passes: handleRequestSent(true, n), then generateVideo is awaited *)
SubmitVideo ==
  /\ generationMode = "Video"
  /\ ~isLoading
  /\ \E o \in Ops : opState[o] = "unused"
  /\ isLoading' = TRUE
  /\ generationErrorMsg' = ""
  /\ generatedVideos' = NULL
  /\ generatedImages' = NULL
  /\ opState' = [opState EXCEPT ![NextOp] = "submitting"]
  /\ submittedForm' = [submittedForm EXCEPT ![NextOp] = formData]
  /\ UNCHANGED <<generationMode, pollingOperation, pollingTimeoutRef, pollingAttemptsRef,
                 pollingIntervalRef, timers, inflight, historyCalls, statusChecks, ctxChanges>>
  /\ UNCHANGED <<formData, checkedForm, pendingSaves>>
  /\ UNCHANGED auxVars

(* client-side validation throws: handleRequestSent(true, n), then the catch calls onNewErrorMsg *)
SubmitVideoInvalid ==
  /\ generationMode = "Video"
  /\ ~isLoading
  /\ \E o \in Ops : opState[o] = "unused"
  /\ generatedVideos' = NULL
  /\ generatedImages' = NULL
  /\ handleNewError("submit", NextOp, "rejected")
  /\ UNCHANGED <<generationMode, pollingAttemptsRef, pollingIntervalRef, inflight,
                 historyCalls, statusChecks, ctxChanges>>
  /\ UNCHANGED formVars
  /\ UNCHANGED auxVars

(* ---- onVideoSubmit: the continuation after generateVideo returned res ---- *)
(* only the 'error' key is looked at: any other response starts polling *)
SubmissionAccepted_NoShapeCheck(res) == res # "error"

(* 'operationName' in result && 'prompt' in result, and no 'error' in result *)
SubmissionAccepted(res) == res = "ok"

onVideoSubmitResult(o, res) ==
  IF SubmissionAccepted(res)
  THEN /\ handleVideoPollingStart(o)
       /\ opState' = EndOps(o, IF res = "ok" THEN "polling" ELSE "rejected")
       /\ UNCHANGED <<uiVars, inflight, historyCalls, ctxChanges, formVars>>
  ELSE /\ handleNewError("submit", o, "rejected")
       /\ UNCHANGED <<generationMode, generatedVideos, generatedImages, pollingAttemptsRef,
                      pollingIntervalRef, inflight, historyCalls, statusChecks, ctxChanges,
                      formVars>>

GenerateVideoReturns ==
  \E o \in Ops, res \in SubmitResults :
    /\ opState[o] = "submitting"
    /\ onVideoSubmitResult(o, res)
    /\ UNCHANGED auxVars

(* ---- the polling effect: poll() up to the await of getVideoGenerationStatus ---- *)

(* the ceiling test written with > instead of >= *)
AttemptsExhausted_OffByOne(attempts) == attempts > MAX_POLLING_ATTEMPTS

(* pollingAttemptsRef.current >= MAX_POLLING_ATTEMPTS *)
AttemptsExhausted(attempts) == attempts >= MAX_POLLING_ATTEMPTS

(* the closure reading the form as it is now *)
operationMetadata_LiveForm(o) == formData

(* pollingOperation.metadata.formData in the poll closure of operation o:   *)
(* the object onVideoSubmit received and passed to handleVideoPollingStart  *)
operationMetadata(o) == submittedForm[o]

(* a pending timer t fires and runs the poll closure of operation t.op *)
poll(t) ==
  LET ts1  == timers \ {t}
      ref1 == IF pollingTimeoutRef = t.id THEN FIRED ELSE pollingTimeoutRef
  IN IF AttemptsExhausted(pollingAttemptsRef)
     THEN /\ generationErrorMsg' = "timeout"
          /\ stopPolling(ts1, ref1)
          /\ opState' = EndOps(t.op, "timeout")
          /\ UNCHANGED <<generationMode, isLoading, generatedVideos, generatedImages,
                         pollingAttemptsRef, pollingIntervalRef, inflight, historyCalls,
                         statusChecks, ctxChanges, formVars>>
     ELSE /\ pollingAttemptsRef' = pollingAttemptsRef + 1
          /\ statusChecks' = statusChecks + 1
          /\ inflight' = [inflight EXCEPT ![t.op] = @ + 1]
          /\ checkedForm' = [checkedForm EXCEPT ![t.op] = operationMetadata(t.op)]
          /\ timers' = ts1
          /\ pollingTimeoutRef' = ref1
          /\ UNCHANGED <<uiVars, pollingOperation, pollingIntervalRef, opState,
                         historyCalls, ctxChanges, formData, submittedForm, pendingSaves>>

TimerFires == \E t \in timers : poll(t) /\ UNCHANGED auxVars

(* ---- poll() after the await: the status result of operation o arrives ---- *)

(* the stopped-while-waiting test with its negation dropped *)
PollingWasStopped_Inverted(ref) == ref # NULL

(* if (!pollingTimeoutRef.current) return *)
PollingWasStopped(ref) == ref = NULL

(* the catch block: it runs whatever the ref holds *)
pollCatch(o) ==
  /\ handleNewError("status", o, "transport")
  /\ UNCHANGED <<generationMode, generatedVideos, generatedImages, pollingAttemptsRef,
                 pollingIntervalRef, historyCalls, statusChecks, ctxChanges, formVars>>

(* the number the timeout message interpolates:                             *)
(* `Video generation timed out after ${MAX_POLLING_ATTEMPTS} attempts.`     *)
TimeoutMsgAttempts == MAX_POLLING_ATTEMPTS

(* the empty-result branch reusing the text of the timeout branch *)
EmptyResultMsg_AsTimeout == "timeout"

(* 'Video generation finished, but no results were returned.' *)
EmptyResultMsg == "noresult"

(* a recorder is invoked for request o and runs up to its                   *)
(* `await saveGenerationMetadata(generationMetadata)`: the pending call,     *)
(* with the form data the record is built from                               *)
recorderCall(o, page, form) == [op |-> o, page |-> page, form |-> form, call |-> historyCalls[o] + 1]

(* statusResult.done *)
pollDone(o, res) ==
  /\ stopPolling(timers, pollingTimeoutRef)
  /\ isLoading' = FALSE
  /\ IF res = "error"
     THEN /\ generationErrorMsg' = "backend"
          /\ opState' = EndOps(o, "error")
          /\ UNCHANGED <<generatedVideos, historyCalls, pendingSaves>>
     ELSE IF res = "videos"
     THEN /\ generatedVideos' = o
          /\ historyCalls' = [historyCalls EXCEPT ![o] = @ + 1]
          /\ pendingSaves' = pendingSaves \cup {recorderCall(o, "video", operationMetadata(o))}
          /\ opState' = EndOps(o, "success")
          /\ UNCHANGED generationErrorMsg
     ELSE /\ generationErrorMsg' = EmptyResultMsg
          /\ opState' = EndOps(o, "noresult")
          /\ UNCHANGED <<generatedVideos, historyCalls, pendingSaves>>
  /\ UNCHANGED <<generationMode, generatedImages, pollingAttemptsRef, pollingIntervalRef,
                 statusChecks, ctxChanges, formData, submittedForm, checkedForm>>

(* not done: the next poll is scheduled with the closure of the same operation; *)
(* the ref is overwritten, the timer it named is not cleared                     *)
pollReschedule(o) ==
  LET id == NewTimerId(timers)
  IN /\ pollingIntervalRef' = NextInterval(pollingIntervalRef)
     /\ timers' = timers \cup {[id |-> id, op |-> o]}
     /\ pollingTimeoutRef' = id
     /\ UNCHANGED <<uiVars, pollingOperation, pollingAttemptsRef, opState, historyCalls,
                    statusChecks, ctxChanges, formVars>>

pollContinuation(o, res) ==
  /\ inflight' = [inflight EXCEPT ![o] = @ - 1]
  /\ IF res = "throw" THEN pollCatch(o)
     ELSE IF PollingWasStopped(pollingTimeoutRef)
     THEN UNCHANGED <<uiVars, pollingOperation, pollingTimeoutRef, pollingAttemptsRef,
                      pollingIntervalRef, timers, opState, historyCalls, statusChecks,
                      ctxChanges, formVars>>
     ELSE IF res = "notdone" THEN pollReschedule(o)
     ELSE pollDone(o, res)

StatusReturns ==
  \E o \in Ops, res \in StatusResults :
    /\ inflight[o] > 0
    /\ pollContinuation(o, res)
    /\ UNCHANGED auxVars

(* ---- appContext changes while an operation is set: effect cleanup, then the effect ---- *)
ContextChange ==
  /\ ctxChanges < MaxCtxChanges
  /\ pollingOperation # NULL
  /\ LET ts1 == ClearTimeout(timers, pollingTimeoutRef)
         id  == NewTimerId(ts1)
     IN /\ timers' = ts1 \cup {[id |-> id, op |-> pollingOperation]}
        /\ pollingTimeoutRef' = id
  /\ ctxChanges' = ctxChanges + 1
  /\ UNCHANGED <<uiVars, pollingOperation, pollingAttemptsRef, pollingIntervalRef, inflight,
                 opState, historyCalls, statusChecks, formVars>>
  /\ UNCHANGED auxVars

(* ---- UI events of the page and the form ---- *)

(* a form component reports an error (onNewErrorMsg); onReset reports '' and is *)
(* disabled while loading                                                        *)
FormError ==
  \E msg \in {"", "form"} :
    /\ msg = "" => ~isLoading
    /\ handleNewError(msg, NULL, "cancelled")
    /\ UNCHANGED <<generationMode, generatedVideos, generatedImages, pollingAttemptsRef,
                   pollingIntervalRef, inflight, historyCalls, statusChecks, ctxChanges, formVars>>
    /\ UNCHANGED auxVars

(* the close button of the error alert: handleRequestSent(false, 0) *)
AlertClose ==
  /\ generationErrorMsg # ""
  /\ isLoading' = FALSE
  /\ generationErrorMsg' = ""
  /\ generatedVideos' = NULL
  /\ generatedImages' = NULL
  /\ UNCHANGED <<generationMode, pollingOperation, pollingTimeoutRef, pollingAttemptsRef,
                 pollingIntervalRef, timers, inflight, opState, historyCalls, statusChecks,
                 ctxChanges, formVars>>
  /\ UNCHANGED auxVars

(* handleModeSwitch -> resetGenerationState *)
handleModeSwitch ==
  /\ ~isLoading
  /\ generationMode' = IF generationMode = "Image" THEN "Video" ELSE "Image"
  /\ isLoading' = FALSE
  /\ generationErrorMsg' = ""
  /\ generatedVideos' = NULL
  /\ generatedImages' = NULL
  /\ stopPolling(timers, pollingTimeoutRef)
  /\ opState' = EndOps(NULL, "cancelled")
  /\ UNCHANGED <<pollingAttemptsRef, pollingIntervalRef, inflight, historyCalls,
                 statusChecks, ctxChanges, formVars>>
  /\ UNCHANGED auxVars

Next ==
  \/ SubmitVideo
  \/ SubmitVideoInvalid
  \/ GenerateVideoReturns
  \/ TimerFires
  \/ StatusReturns
  \/ ContextChange
  \/ FormError
  \/ AlertClose
  \/ handleModeSwitch

Spec == Init /\ [][Next]_vars

(* the code's scheduling: a pending timer eventually fires and an awaited *)
(* status check eventually returns or throws                              *)
LiveSpec == Spec /\ WF_vars(TimerFires) /\ WF_vars(StatusReturns)

(***************************************************************************)
(* The delays of the poll timers (generate/page.tsx:201-207 and :216).     *)
(* The state machine above abstracts from time; here the arithmetic of the *)
(* delays is followed on its own: the interval takes the values the code's *)
(* recurrence gives it, and Math.random() is drawn from RandomSteps values.*)
(***************************************************************************)

(* Math.round(x) for x = num/den >= 0: the nearest integer, halves upwards *)
Round(num, den) == (2 * num + den) \div (2 * den)

(* the jitter without the `- 0.5` that centres it *)
JitteredDelay_Uncentred(interval, r) ==
  Round(interval * JITTER_FACTOR_DEN * RandomSteps + interval * JITTER_FACTOR_NUM * r,
        JITTER_FACTOR_DEN * RandomSteps)

(* jitter = interval * JITTER_FACTOR * (Math.random() - 0.5);               *)
(* nextInterval = Math.round(interval + jitter), with Math.random() = r/RandomSteps *)
JitteredDelay(interval, r) ==
  Round(interval * JITTER_FACTOR_DEN * 2 * RandomSteps
          + interval * JITTER_FACTOR_NUM * (2 * r - RandomSteps),
        JITTER_FACTOR_DEN * 2 * RandomSteps)

BackoffInit == Init

(* handleVideoPollingStart resets the interval; the effect then runs        *)
(* setTimeout(poll, pollingIntervalRef.current)                              *)
BackoffStart ==
  /\ pollingAttemptsRef' = 0
  /\ pollingIntervalRef' = INITIAL_POLLING_INTERVAL_MS
  /\ scheduledDelay' = INITIAL_POLLING_INTERVAL_MS
  /\ scheduledBase' = INITIAL_POLLING_INTERVAL_MS
  /\ UNCHANGED <<uiVars, pollingOperation, pollingTimeoutRef, timers,
                 inflight, opState, historyCalls, statusChecks, ctxChanges, formVars, historyVars, otherVars>>

(* the effect runs again (appContext changed): setTimeout(poll, pollingIntervalRef.current) *)
BackoffEffectRerun ==
  /\ scheduledDelay # 0
  /\ scheduledDelay' = pollingIntervalRef
  /\ scheduledBase' = pollingIntervalRef
  /\ UNCHANGED <<pollVars, historyVars, otherVars>>

(* the scheduled poll runs below the attempt ceiling (the counter grows) and *)
(* its result is not done: the jittered delay is computed from the current  *)
(* interval, then the interval is advanced                                   *)
BackoffNotDone ==
  \E r \in 0..(RandomSteps - 1) :
    /\ scheduledDelay # 0
    /\ ~AttemptsExhausted(pollingAttemptsRef)
    /\ pollingAttemptsRef' = pollingAttemptsRef + 1
    /\ scheduledDelay' = JitteredDelay(pollingIntervalRef, r)
    /\ scheduledBase' = pollingIntervalRef
    /\ pollingIntervalRef' = NextInterval(pollingIntervalRef)
    /\ UNCHANGED <<uiVars, pollingOperation, pollingTimeoutRef, timers,
                   inflight, opState, historyCalls, statusChecks, ctxChanges, formVars, historyVars, otherVars>>

BackoffNext == BackoffStart \/ BackoffEffectRerun \/ BackoffNotDone

BackoffSpec == BackoffInit /\ [][BackoffNext]_vars

(***************************************************************************)
(* The history recorder: saveVideoToHistory and saveImageToHistory of the  *)
(* generate page, saveImagesToHistory of the edit page, and the store of   *)
(* src/app/api/generation-metadata.tsx.  A recorder is an async function:  *)
(* a step is its run up to the next await, or the continuation after the   *)
(* awaited server action returned or threw.                                *)
(*                                                                         *)
(* Identifiers.  The generate page names a record                          *)
(* `video_${Date.now()}_${random}`, the edit page names it after the key   *)
(* of the image, `${uniqueFolderId}_${i}` with a random folder id per      *)
(* generation.  Both are written <<run, i>>: run is the invocation that    *)
(* drew the time stamp or the folder id, i is 0 for the record of a whole  *)
(* generation and the index of the item otherwise.                         *)
(***************************************************************************)

(* the id drawn by an invocation that repeats the one before it *)
FreshRun_Repeated(n) == 1

(* Date.now() / Math.random() / generateUniqueFolderId(): not drawn before *)
FreshRun(n) == n + 1

RecordId(run) == <<run, 0>>
ItemKey(run, i) == <<run, i>>

(* value?.toString() *)
ToStringOpt(v) == IF v \in {UNDEFINED, "null"} THEN UNDEFINED ELSE IF v = "" THEN "" ELSE "value"

(* {} *)
EmptyObject == [k \in {} |-> ABSENT]

(* saveVideoToHistory: parameters *)
VideoParameters(in) ==
  Literal(ParamKeys,
          [userQuery |-> "value", aspectRatio |-> "value", resolution |-> "value",
           duration |-> "value", sampleCount |-> "value",
           isVideoWithAudio |-> in.form.isVideoWithAudio,
           style |-> in.form.style, secondary_style |-> in.form.secondary_style])

(* saveImageToHistory: parameters *)
ImageParameters(in) ==
  Literal(ParamKeys,
          [userQuery |-> "value", aspectRatio |-> in.image.ratio, sampleCount |-> "value"])

(* saveImagesToHistory (edit page): parameters *)
EditParameters(in) ==
  Literal(ParamKeys,
          [mode |-> "value", width |-> OrElse(ToStringOpt(in.image.width), ""),
           height |-> OrElse(ToStringOpt(in.image.height), ""), ratio |-> OrElse(in.image.ratio, "")])

(* saveVideoToHistory / saveImageToHistory: performance *)
Performance(in) ==
  Literal(PerfKeys,
          [tokensUsed |-> in.report.tokensUsed, inputTokens |-> in.report.inputTokens,
           outputTokens |-> in.report.outputTokens, totalTokens |-> in.report.totalTokens,
           executionTimeMs |-> OrElse(in.report.executionTimeMs, "0"),
           startTime |-> "value", endTime |-> "value"])

(* saveVideoToHistory / saveImageToHistory: cost *)
Cost(in) == IF Truthy(in.report.estimatedCost) THEN "value" ELSE UNDEFINED

(* the GenerationMetadata object a recorder builds; `outputs` are the items *)
(* it lists and `input` remembers what it was built from                    *)
videoMetadata(run, n, in) ==
  [id |-> RecordId(run), type |-> "video", parameters |-> VideoParameters(in),
   performance |-> Performance(in), cost |-> Cost(in),
   outputs |-> {ItemKey(run, i) : i \in 1..n}, input |-> in]

imageMetadata(run, n, in) ==
  [id |-> RecordId(run), type |-> "image", parameters |-> ImageParameters(in),
   performance |-> Performance(in), cost |-> Cost(in),
   outputs |-> {ItemKey(run, i) : i \in 1..n}, input |-> in]

editMetadata(run, i, in) ==
  [id |-> ItemKey(run, i), type |-> "image", parameters |-> EditParameters(in),
   performance |-> Literal(PerfKeys, EmptyObject), cost |-> "{}",
   outputs |-> {ItemKey(run, i)}, input |-> in]

(* the metadata object of the call the recorder r is waiting for *)
builtMetadata(r) ==
  IF r.page = "video" THEN videoMetadata(r.run, r.n, r.input)
  ELSE IF r.page = "image" THEN imageMetadata(r.run, r.n, r.input)
  ELSE editMetadata(r.run, r.idx, r.input)

(* JSON.stringify(metadata, null, 2) *)
Persisted(m) ==
  [m EXCEPT !.parameters = JsonStringify(@), !.performance = JsonStringify(@),
            !.cost = IF @ = UNDEFINED THEN ABSENT ELSE @]

(* saveGenerationMetadata: mkdir -p <dir>/<id>, then writeFile metadata.json *)
saveGenerationMetadata(dir, m) == {rec \in dir : rec.id # m.id} \cup {Persisted(m)}

(* ---- a recorder is invoked and runs up to `await saveGenerationMetadata` ---- *)
(* one invocation is followed at a time: the next one starts when the one   *)
(* before it has ended                                                       *)
startRecorder(page, n, in, mirror) ==
  /\ runs < MaxRuns
  /\ recorder.phase \in {"idle", "done"}
  /\ runs' = runs + 1
  /\ recorder' = [page |-> page, run |-> FreshRun(runs), n |-> n, input |-> in,
                   idx |-> IF page = "edit" THEN 1 ELSE 0, phase |-> "save",
                   mirrorOn |-> mirror, last |-> "none"]
  /\ UNCHANGED <<historyDir, sidecars, pollVars, backoffVars, otherVars>>

(* mirror: bucketName && appContext?.userID *)
saveVideoToHistory ==
  \E n \in 1..MaxItems, in \in VideoInputs, mirror \in BOOLEAN : startRecorder("video", n, in, mirror)

saveImageToHistory ==
  \E n \in 1..MaxItems, in \in ImageInputs, mirror \in BOOLEAN : startRecorder("image", n, in, mirror)

(* edit page; mirror: image.gcsUri *)
saveImagesToHistory ==
  \E n \in 1..MaxItems, in \in EditInputs : startRecorder("edit", n, in, Truthy(in.image.gcsUri))

(* the recorder r moves on to its next awaited call, or ends *)
nextItemOrDone(r, res) ==
  IF r.idx < r.n
  THEN [r EXCEPT !.idx = @ + 1, !.phase = IF r.page = "edit" THEN "save" ELSE "mirror", !.last = res]
  ELSE [r EXCEPT !.phase = "done", !.last = res]

(* ---- the awaited saveGenerationMetadata returns success / failure, or throws ---- *)
SaveReturns ==
  \E res \in {"ok", "fail", "throw"} :
    /\ recorder.phase = "save"
    /\ historyDir' = IF res = "ok" THEN saveGenerationMetadata(historyDir, builtMetadata(recorder))
                                   ELSE historyDir
    /\ recorder' = IF res = "throw" THEN [recorder EXCEPT !.phase = "done", !.last = "throw"]
                   ELSE IF recorder.mirrorOn /\ recorder.page = "edit"
                        THEN [recorder EXCEPT !.phase = "mirror", !.last = res]
                   ELSE IF recorder.mirrorOn THEN nextItemOrDone(recorder, res)
                   ELSE IF recorder.page = "edit" THEN nextItemOrDone(recorder, res)
                   ELSE [recorder EXCEPT !.phase = "done", !.last = res]
    /\ UNCHANGED <<sidecars, runs, pollVars, backoffVars, otherVars>>

(* ---- the awaited uploadMetadataJSON returns or throws ---- *)
(* generate page: the throw is caught inside the loop; edit page: it is     *)
(* caught by the try around the loop                                         *)
MirrorReturns ==
  \E res \in {"ok", "throw"} :
    /\ recorder.phase = "mirror"
    /\ sidecars' = IF res = "ok" THEN sidecars \cup {ItemKey(recorder.run, recorder.idx)} ELSE sidecars
    /\ recorder' = IF res = "throw" /\ recorder.page = "edit"
                   THEN [recorder EXCEPT !.phase = "done", !.last = "throw"]
                   ELSE nextItemOrDone(recorder, res)
    /\ UNCHANGED <<historyDir, runs, pollVars, backoffVars, otherVars>>

(* ---- history page: deleteGenerationSession(id), clearAllHistory() ---- *)
deleteGenerationSession ==
  \E rec \in historyDir :
    /\ historyDir' = {r \in historyDir : r.id # rec.id}
    /\ UNCHANGED <<sidecars, recorder, runs, pollVars, backoffVars, otherVars>>

clearAllHistory ==
  /\ historyDir # {}
  /\ historyDir' = {}
  /\ UNCHANGED <<sidecars, recorder, runs, pollVars, backoffVars, otherVars>>

HistoryNext ==
  \/ saveVideoToHistory
  \/ saveImageToHistory
  \/ saveImagesToHistory
  \/ SaveReturns
  \/ MirrorReturns
  \/ deleteGenerationSession
  \/ clearAllHistory

HistorySpec == Init /\ [][HistoryNext]_vars

(***************************************************************************)
(* The generate page with its form and its recorders: the polling state    *)
(* machine above together with edits of the form, image generation and the *)
(* return of the recorders' saveGenerationMetadata calls.  appContext      *)
(* changes are followed in Spec; they re-run the effect with the same      *)
(* pollingOperation and touch neither the form nor the recorders.          *)
(***************************************************************************)

(* the user chooses or clears the style; the inputs stay enabled while loading *)
FormEdit ==
  /\ formData' = [formData EXCEPT !.style = IF @ = "" THEN "value" ELSE "",
                                   !.secondary_style = IF @ = "" THEN "value" ELSE ""]
  /\ UNCHANGED <<uiVars, pollingOperation, pollingTimeoutRef, pollingAttemptsRef,
                 pollingIntervalRef, timers, inflight, opState, historyCalls, statusChecks,
                 ctxChanges, submittedForm, checkedForm, pendingSaves>>
  /\ UNCHANGED auxVars

(* onImageSubmit up to the await of generateImage / generateImageWithGemini *)
SubmitImage ==
  /\ generationMode = "Image"
  /\ ~isLoading
  /\ \E o \in Ops : opState[o] = "unused"
  /\ isLoading' = TRUE
  /\ generationErrorMsg' = ""
  /\ generatedVideos' = NULL
  /\ generatedImages' = NULL
  /\ opState' = [opState EXCEPT ![NextOp] = "imaging"]
  /\ UNCHANGED <<generationMode, pollingOperation, pollingTimeoutRef, pollingAttemptsRef,
                 pollingIntervalRef, timers, inflight, historyCalls, statusChecks, ctxChanges,
                 formVars>>
  /\ UNCHANGED auxVars

(* handleImageGeneration(newImages) *)
handleImageGeneration(o) ==
  /\ generatedImages' = o
  /\ isLoading' = FALSE
  /\ historyCalls' = [historyCalls EXCEPT ![o] = @ + 1]
  /\ pendingSaves' = pendingSaves \cup {recorderCall(o, "image", NoForm)}

(* onImageSubmit after the await: an error result is thrown to the catch,   *)
(* a warning is reported before the images are handed over                  *)
onImageSubmitResult(o, res) ==
  IF res = "error"
  THEN /\ handleNewError("submit", o, "rejected")
       /\ UNCHANGED <<generationMode, generatedVideos, generatedImages, pollingAttemptsRef,
                      pollingIntervalRef, inflight, historyCalls, statusChecks, ctxChanges,
                      formVars>>
  ELSE IF res = "warning"
  THEN /\ generationErrorMsg' = "warning"
       /\ stopPolling(timers, pollingTimeoutRef)
       /\ opState' = EndOps(o, "imaged")
       /\ handleImageGeneration(o)
       /\ UNCHANGED <<generationMode, generatedVideos, pollingAttemptsRef, pollingIntervalRef,
                      inflight, statusChecks, ctxChanges, formData, submittedForm, checkedForm>>
  ELSE /\ opState' = [opState EXCEPT ![o] = "imaged"]
       /\ handleImageGeneration(o)
       /\ UNCHANGED <<generationMode, generationErrorMsg, generatedVideos, pollingOperation,
                      pollingTimeoutRef, pollingAttemptsRef, pollingIntervalRef, timers,
                      inflight, statusChecks, ctxChanges, formData, submittedForm, checkedForm>>

GenerateImageReturns ==
  \E o \in Ops, res \in {"ok", "warning", "error"} :
    /\ opState[o] = "imaging"
    /\ onImageSubmitResult(o, res)
    /\ UNCHANGED auxVars

(* the recorder showing the failure to the user *)
recorderCatch_Surfaced(res) ==
  /\ generationErrorMsg' = IF res = "ok" THEN generationErrorMsg ELSE "form"
  /\ UNCHANGED <<generationMode, isLoading, generatedVideos, generatedImages>>

(* what the recorder does with the result of saveGenerationMetadata:        *)
(* console.log / console.error, also in its catch block                     *)
recorderCatch(res) == UNCHANGED uiVars

(* the GenerationMetadata of the pending call p; the id and the backend's   *)
(* report are fixed when the recorder is invoked, nothing reads them before *)
(* the store does                                                           *)
pendingMetadata(p, report) ==
  IF p.page = "video"
  THEN videoMetadata(FreshRun(runs), 1, Input(p.form, NoImage, report))
  ELSE imageMetadata(FreshRun(runs), 1, Input(NoForm, FullImage, report))

(* a saveGenerationMetadata call of a recorder returns success / failure, or throws *)
HistorySaveReturns ==
  \E p \in pendingSaves, res \in {"ok", "fail", "throw"},
     report \in {Report(UNDEFINED, UNDEFINED, UNDEFINED), Report("value", "value", "value")} :
    /\ pendingSaves' = pendingSaves \ {p}
    /\ historyDir' = IF res = "ok" THEN saveGenerationMetadata(historyDir, pendingMetadata(p, report))
                                   ELSE historyDir
    /\ runs' = runs + 1
    /\ recorderCatch(res)
    /\ UNCHANGED <<pollingOperation, pollingTimeoutRef, pollingAttemptsRef, pollingIntervalRef,
                   timers, inflight, opState, historyCalls, statusChecks, ctxChanges,
                   formData, submittedForm, checkedForm>>
    /\ UNCHANGED <<backoffVars, sidecars, recorder, otherVars>>

GenerateNext ==
  \/ SubmitVideo
  \/ SubmitVideoInvalid
  \/ GenerateVideoReturns
  \/ TimerFires
  \/ StatusReturns
  \/ FormError
  \/ AlertClose
  \/ handleModeSwitch
  \/ FormEdit
  \/ SubmitImage
  \/ GenerateImageReturns
  \/ HistorySaveReturns

GenerateSpec == Init /\ [][GenerateNext]_vars

(***************************************************************************)
(* The error channel: what the form and the page show for an error text    *)
(* the backend returned (GenerateForm.tsx:629-725, generate/page.tsx:      *)
(* 186-188).  A text is followed by its leading 'Error: ' prefixes and by  *)
(* whether it is the model-not-found text; the models the dropdown lists   *)
(* are drawn when the form is built.                                       *)
(***************************************************************************)

(* Error.prototype.toString(): 'Error: ' + message *)
ErrorToString(m) == [m EXCEPT !.prefixes = @ + 1]

(* text.replace('Error: ', ''): a string pattern replaces the first occurrence only *)
ReplaceFirst(m) == [m EXCEPT !.prefixes = IF @ > 0 THEN @ - 1 ELSE 0]

(* text.replaceAll('Error: ', '') *)
ReplaceAll(m) == [m EXCEPT !.prefixes = 0]

(* manageModelNotFoundError(errorMessage, modelOptions): the pattern is not  *)
(* anchored; the label is the listed model's label, else the model value     *)
manageModelNotFoundError(m, options) ==
  IF m.body = "notfound"
  THEN Message(0, "access", m.model, IF m.model \in options THEN "label" ELSE "value")
  ELSE m

ErrorInit ==
  /\ PageInit
  /\ StoreVarsInit
  /\ CacheVarsInit
  /\ modelOptions \in SUBSET Models
  /\ errorPath = "none"
  /\ reportedError = NoMessage
  /\ shownError = NoMessage

(* the request of errorPath awaits its result: nothing is shown for it yet *)
ErrorPending(path) == errorPath = path /\ shownError = NoMessage

(* onVideoSubmit / onImageSubmit: onRequestSent(true, n) clears the message *)
onRequestSent ==
  \E path \in {"submission", "image"} :
    /\ errorPath = "none" \/ shownError # NoMessage
    /\ errorPath' = path
    /\ reportedError' = NoMessage
    /\ shownError' = NoMessage
    /\ UNCHANGED <<modelOptions, pollVars, backoffVars, historyVars, storeVars, cacheVars>>

(* generateVideo returned an operation: polling starts *)
onVideoPollingStart ==
  /\ ErrorPending("submission")
  /\ errorPath' = "status"
  /\ UNCHANGED <<modelOptions, reportedError, shownError, pollVars, backoffVars, historyVars, storeVars, cacheVars>>

(* generateVideo returned {error}: replace, manageModelNotFoundError, throw  *)
(* new Error(errorMsg); the catch shows error.toString().replace(..)         *)
onVideoSubmitError ==
  \E e \in BackendErrors :
    /\ ErrorPending("submission")
    /\ reportedError' = e
    /\ shownError' = ReplaceFirst(ErrorToString(manageModelNotFoundError(ReplaceFirst(e), modelOptions)))
    /\ UNCHANGED <<modelOptions, errorPath, pollVars, backoffVars, historyVars, storeVars, cacheVars>>

(* a done status result with an error: setGenerationErrorMsg(statusResult.error) *)
onStatusError ==
  \E e \in BackendErrors :
    /\ ErrorPending("status")
    /\ reportedError' = e
    /\ shownError' = e
    /\ UNCHANGED <<modelOptions, errorPath, pollVars, backoffVars, historyVars, storeVars, cacheVars>>

(* generateImage / generateImageWithGemini returned {error}: replaceAll,    *)
(* manageModelNotFoundError, throw Error(errorMsg); the catch shows          *)
(* error.toString()                                                           *)
onImageSubmitError ==
  \E e \in BackendErrors :
    /\ ErrorPending("image")
    /\ reportedError' = e
    /\ shownError' = ErrorToString(manageModelNotFoundError(ReplaceAll(e), modelOptions))
    /\ UNCHANGED <<modelOptions, errorPath, pollVars, backoffVars, historyVars, storeVars, cacheVars>>

ErrorNext ==
  \/ onRequestSent
  \/ onVideoPollingStart
  \/ onVideoSubmitError
  \/ onStatusError
  \/ onImageSubmitError

ErrorSpec == ErrorInit /\ [][ErrorNext]_vars

(***************************************************************************)
(* The history store (src/app/api/generation-metadata.tsx): the server     *)
(* actions saveGenerationMetadata, loadGenerationHistory,                  *)
(* deleteGenerationSession and clearAllHistory over the directory          *)
(* getHistoryDir() names.  Each action is one call, from its start to its  *)
(* return; a modification time is the number of the call that set it.      *)
(***************************************************************************)

(* path.join(historyDir, id): the segments are applied one by one, '.' and *)
(* empty segments dropped, '..' taking the last directory away             *)
RECURSIVE Normalize(_, _)
Normalize(segs, acc) ==
  IF segs = <<>> THEN acc
  ELSE LET sg == Head(segs)
       IN Normalize(Tail(segs),
                    IF sg = DOT THEN acc
                    ELSE IF sg = DOTDOT
                         THEN IF acc.down = <<>> THEN [acc EXCEPT !.up = @ + 1]
                              ELSE [acc EXCEPT !.down = SubSeq(@, 1, Len(@) - 1)]
                    ELSE [acc EXCEPT !.down = Append(@, sg)])

PathJoin(id) == Normalize(id, HistoryDirPath)

(* the path lies in the history directory (or is that directory) *)
InsideHistoryDir(path) == path.up = 0

(* fs.rm(path, {recursive: true}) takes the directory `down` of the history *)
(* directory with it: the path is that directory or one above it            *)
Covers(path, down) ==
  IF path.up > 0 THEN path.down = <<>>
  ELSE Len(path.down) <= Len(down) /\ SubSeq(down, 1, Len(path.down)) = path.down

(* JSON.stringify(metadata, null, 2), read back by JSON.parse: a key whose  *)
(* value is undefined is not there any more                                 *)
JsonRoundTrip(r) == [r EXCEPT !.cost = IF @ = UNDEFINED THEN ABSENT ELSE @]

(* the name fs.readdir(historyDir) lists for what a path inside created:   *)
(* the first directory of the path, or the metadata.json file an empty id  *)
(* leaves in the history directory itself                                  *)
METADATA_JSON == -2
SessionName(path) == IF path.down = <<>> THEN METADATA_JSON ELSE path.down[1]

(* the entries of a directory in some order *)
RECURSIVE SetToSeq(_)
SetToSeq(S) == IF S = {} THEN <<>>
               ELSE LET x == CHOOSE y \in S : TRUE IN <<x>> \o SetToSeq(S \ {x})

(* (a, b) => b.mtime.getTime() - a.mtime.getTime() *)
NewerMtime(a, b) == a.mtime > b.mtime
(* (a, b) => new Date(b.timestamp) - new Date(a.timestamp), on a list that *)
(* is in mtime order: Array.prototype.sort is stable                       *)
NewerTimestamp(a, b) ==
  \/ a.meta.timestamp > b.meta.timestamp
  \/ a.meta.timestamp = b.meta.timestamp /\ a.mtime > b.mtime
(* readFile and JSON.parse of <session>/metadata.json do not throw *)
Readable(e) == e.meta # NoMeta

(* loadGenerationHistory(): the sessions sorted by mtime, the first         *)
(* HISTORY_LIMIT of them read, the readable ones sorted by timestamp;       *)
(* newest first both times                                                  *)
loadGenerationHistory(exists, ents) ==
  IF ~exists THEN [success |-> TRUE, data |-> <<>>]
  ELSE LET sessionStats   == SortSeq(SetToSeq(ents), NewerMtime)
           recentSessions == SubSeq(sessionStats, 1, Min(Len(sessionStats), HISTORY_LIMIT))
           metadataList   == SortSeq(SelectSeq(recentSessions, Readable), NewerTimestamp)
       IN [success |-> TRUE, data |-> [p \in 1..Len(metadataList) |-> metadataList[p].meta]]

StoreInit ==
  /\ PageInit
  /\ ErrorVarsInit
  /\ CacheVarsInit
  /\ \E n \in {0, HISTORY_LIMIT - 1} :
       /\ earlier = [lo |-> 1, hi |-> n]
       /\ historyExists = (n > 0)
       /\ savedRecords = EarlierRecords([lo |-> 1, hi |-> n])
  /\ entries = {}
  /\ storeClock = 0
  /\ lastCall = NoCall

(* everything below the history directory *)
AllEntries == EarlierEntries(earlier) \cup entries

(* saveGenerationMetadata(metadata): ensureHistoryDir, mkdir sessionDir,   *)
(* writeFile metadata.json; res = "fail": writeFile throws.  The record is *)
(* one generated now or one imported with the time stamp of an old file.   *)
(* A metadata.json directly below the session name is the session's        *)
(* record; anywhere else it is a file loadGenerationHistory cannot read    *)
(* as one.                                                                 *)
StoreSave ==
  \E id \in SessionIds, old \in BOOLEAN, cost \in {UNDEFINED, "value"}, res \in {"ok", "fail"} :
    LET path   == PathJoin(id)
        now    == HISTORY_LIMIT + storeClock + 1
        r      == Record(id, IF old THEN 0 ELSE now, cost)
        there  == {e \in entries : e.name = SessionName(path)}
        isSession == Len(path.down) = 1
        written == IF res = "ok" /\ isSession THEN JsonRoundTrip(r)
                   ELSE IF there = {} THEN NoMeta ELSE (CHOOSE e \in there : TRUE).meta
        created == there = {} \/ (res = "ok" /\ isSession /\ \A e \in there : e.meta = NoMeta)
    IN /\ storeClock < MaxStoreCalls
       /\ storeClock' = storeClock + 1
       /\ historyExists' = TRUE
       /\ entries' =
            IF ~InsideHistoryDir(path) \/ (path.down = <<>> /\ res = "fail") THEN entries
            ELSE (entries \ there)
                   \cup {[name |-> SessionName(path),
                          mtime |-> IF created THEN now ELSE (CHOOSE e \in there : TRUE).mtime,
                          meta |-> written]}
       /\ savedRecords' = IF res = "ok" THEN {x \in savedRecords : x.id # id} \cup {r}
                                        ELSE savedRecords
       /\ lastCall' = [fn |-> "save", id |-> id, path |-> path, success |-> res = "ok", data |-> <<>>]
       /\ UNCHANGED <<earlier, pollVars, backoffVars, historyVars, errorVars, cacheVars>>

(* loadGenerationHistory() *)
StoreLoad ==
  LET result == loadGenerationHistory(historyExists, AllEntries)
  IN /\ lastCall' = [fn |-> "load", id |-> <<>>, path |-> HistoryDirPath,
                     success |-> result.success, data |-> result.data]
     /\ UNCHANGED <<historyExists, earlier, entries, storeClock, savedRecords,
                    pollVars, backoffVars, historyVars, errorVars, cacheVars>>

(* deleteGenerationSession(sessionId): fs.rm(sessionDir, {recursive, force}); *)
(* the ids passed are those above and the oldest of the earlier sessions      *)
StoreDelete ==
  \E id \in SessionIds \cup {<<1>>} :
    LET path == PathJoin(id)
    IN /\ entries' = {e \in entries : ~Covers(path, <<e.name>>)}
       /\ earlier' = IF Covers(path, <<>>) THEN NoEarlier
                     ELSE IF id = <<earlier.lo>> /\ earlier.lo <= earlier.hi
                          THEN [earlier EXCEPT !.lo = @ + 1]
                     ELSE earlier
       /\ historyExists' = (historyExists /\ ~Covers(path, <<>>))
       /\ savedRecords' = {x \in savedRecords : x.id # id}
       /\ lastCall' = [fn |-> "delete", id |-> id, path |-> path, success |-> TRUE, data |-> <<>>]
       /\ UNCHANGED <<storeClock, pollVars, backoffVars, historyVars, errorVars, cacheVars>>

(* clearAllHistory(): nothing when the directory is missing, else rm and mkdir *)
StoreClear ==
  /\ entries' = {}
  /\ earlier' = NoEarlier
  /\ savedRecords' = {}
  /\ lastCall' = [fn |-> "clear", id |-> <<>>, path |-> HistoryDirPath, success |-> TRUE, data |-> <<>>]
  /\ UNCHANGED <<historyExists, storeClock, pollVars, backoffVars, historyVars, errorVars, cacheVars>>

StoreNext ==
  \/ StoreSave
  \/ StoreLoad
  \/ StoreDelete
  \/ StoreClear

StoreSpec == StoreInit /\ [][StoreNext]_vars

(***************************************************************************)
(* Properties                                                              *)
(***************************************************************************)

RECURSIVE SumOver(_, _)
SumOver(f, S) == IF S = {} THEN 0
                 ELSE LET x == CHOOSE y \in S : TRUE IN f[x] + SumOver(f, S \ {x})

(* the polls that exist: pending timers and status checks in flight *)
ActivePolls == Cardinality(timers) + SumOver(inflight, Ops)

(* a status check is issued for operation o in this step *)
CheckIssued(o) == inflight'[o] > inflight[o]
(* a status result of operation o is consumed in this step *)
ResultArrived(o) == inflight'[o] < inflight[o]

(* C1: for any one video operation the history recorder is invoked at most *)
(* once, and exactly once if the operation ended in success.               *)
C1_ExactlyOnceRecording ==
  \A o \in Ops : /\ historyCalls[o] <= 1
                 /\ opState[o] = "success" => historyCalls[o] = 1

(* C2: at any moment at most one poll (a pending timer or an in-flight     *)
(* status check) exists.                                                   *)
C2_SingleFlight == ActivePolls <= 1

(* C3: while an operation B is the current one, no status check is issued  *)
(* for another operation A, and a late result of A changes neither B's     *)
(* loop state nor the loading flag, the displayed videos or the history.   *)
C3_NoCrossTalk ==
  [][\A a \in Ops :
       (pollingOperation # NULL /\ pollingOperation # a) =>
          /\ ~CheckIssued(a)
          /\ ResultArrived(a) =>
               UNCHANGED <<timers, pollingTimeoutRef, pollingAttemptsRef, pollingIntervalRef,
                           pollingOperation, isLoading, generatedVideos, historyCalls>>]_vars

(* C4: once an operation has been stopped, no status check is issued for   *)
(* it and no outcome of it is applied: a result that returns or throws     *)
(* later changes neither videos, error message, loading flag nor history.  *)
C4_StopIsFinal ==
  [][\A o \in Ops :
       opState[o] = "cancelled" =>
          /\ ~CheckIssued(o)
          /\ ResultArrived(o) =>
               UNCHANGED <<generatedVideos, generationErrorMsg, isLoading, historyCalls>>]_vars

(* C5: the poll driver never issues more than MAX_POLLING_ATTEMPTS status  *)
(* checks after a start, and when the timeout outcome is applied exactly   *)
(* MAX_POLLING_ATTEMPTS checks have been issued.                           *)
C5_AttemptCeiling ==
  /\ [](statusChecks <= MAX_POLLING_ATTEMPTS)
  /\ [][\A o \in Ops :
          (opState[o] = "polling" /\ opState'[o] = "timeout") =>
             statusChecks = MAX_POLLING_ATTEMPTS]_vars

C5_Witness ==
  /\ \E o \in Ops : opState[o] = "timeout"
  /\ generationErrorMsg = "timeout"
  /\ statusChecks = MAX_POLLING_ATTEMPTS
  /\ ActivePolls = 0

(* C6: when a terminal outcome (success, backend error, empty result,      *)
(* transport error, timeout) of an operation is applied, isLoading is      *)
(* false afterwards.                                                       *)
C6_OutcomeEndsLoading ==
  [][\A o \in Ops :
       (opState[o] = "polling" /\ opState'[o] \in DoneStates) => ~isLoading']_vars

(* C7: an operation that ended by backend error, empty result, timeout,    *)
(* transport error or cancellation never has a history recorder call.      *)
C7_HistoryOnlyOnSuccess ==
  \A o \in Ops : opState[o] \in (EndStates \ {"success"}) => historyCalls[o] = 0

(* C8: when a status check of an operation throws, the error-checking-     *)
(* status message is set and the handle cleared, and no status check is    *)
(* issued for that operation afterwards.                                   *)
C8_ThrowIsTerminal ==
  [][\A o \in Ops :
       /\ (opState[o] = "polling" /\ opState'[o] = "transport") =>
             (generationErrorMsg' = "status" /\ pollingOperation' = NULL)
       /\ opState[o] = "transport" => ~CheckIssued(o)]_vars

(* C9: under fair timers and status checks, whenever an operation handle   *)
(* is set the driver eventually reaches a state with no handle set and no  *)
(* timer pending.                                                          *)
C9_LoopEnds ==
  [](pollingOperation # NULL => <>(pollingOperation = NULL /\ timers = {}))

C9_Witness ==
  /\ \E o \in Ops : opState[o] \in DoneStates
  /\ pollingOperation = NULL
  /\ ActivePolls = 0
  /\ ctxChanges > 0

(* C10: a failed submission surfaces the error, leaves no operation handle *)
(* set, and no timer or status check ever exists for that request.         *)
C10_RejectedNeverPolls ==
  /\ [](\A o \in Ops :
          opState[o] = "rejected" =>
             /\ pollingOperation # o
             /\ inflight[o] = 0
             /\ \A t \in timers : t.op # o)
  /\ [][\A o \in Ops :
          (opState[o] # "rejected" /\ opState'[o] = "rejected") =>
             /\ generationErrorMsg' = "submit"
             /\ pollingOperation' = NULL
             /\ ~isLoading']_vars

C10_Witness ==
  \E o \in Ops : /\ opState[o] = "rejected"
                 /\ generationErrorMsg = "submit"
                 /\ pollingOperation = NULL
                 /\ ~isLoading

(* C13: reaching the attempt ceiling sets the timeout message, the number  *)
(* of attempts that message names is the number of status checks issued,   *)
(* and no backend error, transport error or empty result sets that message.*)
C13_TimeoutMessage ==
  [][\A o \in Ops :
       /\ (opState[o] = "polling" /\ opState'[o] = "timeout") =>
             (generationErrorMsg' = "timeout" /\ TimeoutMsgAttempts = statusChecks)
       /\ (opState[o] = "polling" /\ opState'[o] \in {"error", "noresult", "transport"}) =>
             generationErrorMsg' \in {"backend", "noresult", "status"}]_vars

C13_Witness ==
  /\ \E o \in Ops : opState[o] = "timeout"
  /\ \E o \in Ops : opState[o] \in {"error", "noresult", "transport"}
  /\ generationErrorMsg = "timeout"
  /\ statusChecks = TimeoutMsgAttempts

(* a step in which handleVideoPollingStart runs for operation o *)
PollingStarted(o) == opState[o] = "submitting" /\ opState'[o] = "polling"
(* a step in which a not-done status result is processed: it is the only   *)
(* continuation of a status check that sets a timer                        *)
NotDoneProcessed == (\E o \in Ops : ResultArrived(o)) /\ timers' \ timers # {}

(* C14: the base interval is 6000 ms at every start, becomes               *)
(* min(previous * 1.2, 60000) when a not-done result is processed, changes *)
(* at no other step (so it never decreases within an operation) and never  *)
(* exceeds 60000 ms.                                                       *)
C14_BackoffInterval ==
  /\ [](pollingIntervalRef >= INITIAL_POLLING_INTERVAL_MS /\ pollingIntervalRef <= MAX_POLLING_INTERVAL_MS)
  /\ [][/\ (\E o \in Ops : PollingStarted(o)) => pollingIntervalRef' = INITIAL_POLLING_INTERVAL_MS
        /\ NotDoneProcessed =>
              /\ pollingIntervalRef' >= pollingIntervalRef
              /\ IF pollingIntervalRef * BACKOFF_FACTOR_NUM >= MAX_POLLING_INTERVAL_MS * BACKOFF_FACTOR_DEN
                 THEN pollingIntervalRef' = MAX_POLLING_INTERVAL_MS
                 ELSE /\ pollingIntervalRef' * BACKOFF_FACTOR_DEN <= pollingIntervalRef * BACKOFF_FACTOR_NUM
                      /\ (pollingIntervalRef' + 1) * BACKOFF_FACTOR_DEN > pollingIntervalRef * BACKOFF_FACTOR_NUM
        /\ pollingIntervalRef' # pollingIntervalRef =>
              (NotDoneProcessed \/ \E o \in Ops : PollingStarted(o))]_vars

C14_Witness ==
  /\ pollingIntervalRef = MAX_POLLING_INTERVAL_MS
  /\ pollingOperation # NULL
  /\ opState[pollingOperation] = "polling"
  /\ statusChecks > 13

(* C15: every delay used to schedule a poll lies within the base interval  *)
(* current at that time times (1 - JITTER_FACTOR/2) and (1 + JITTER_FACTOR/2). *)
C15_DelayWithinJitter ==
  scheduledDelay # 0 =>
    /\ scheduledDelay * 2 * JITTER_FACTOR_DEN >= scheduledBase * (2 * JITTER_FACTOR_DEN - JITTER_FACTOR_NUM)
    /\ scheduledDelay * 2 * JITTER_FACTOR_DEN <= scheduledBase * (2 * JITTER_FACTOR_DEN + JITTER_FACTOR_NUM)

(* C15, amended: every delay used to schedule a poll is a whole number of  *)
(* milliseconds at most half a millisecond outside that range.             *)
C15_DelayWithinRoundedJitter ==
  scheduledDelay # 0 =>
    /\ 2 * scheduledDelay * 2 * JITTER_FACTOR_DEN + 2 * JITTER_FACTOR_DEN
          >= 2 * scheduledBase * (2 * JITTER_FACTOR_DEN - JITTER_FACTOR_NUM)
    /\ 2 * scheduledDelay * 2 * JITTER_FACTOR_DEN - 2 * JITTER_FACTOR_DEN
          <= 2 * scheduledBase * (2 * JITTER_FACTOR_DEN + JITTER_FACTOR_NUM)

C15_Witness ==
  /\ scheduledDelay # 0
  /\ scheduledDelay < scheduledBase
  /\ scheduledBase < pollingIntervalRef
  /\ pollingIntervalRef = MAX_POLLING_INTERVAL_MS

(* C11: the step that invokes a recorder has already ended loading and     *)
(* shows the generated items, and the step in which its                    *)
(* saveGenerationMetadata call returns, fails or throws changes neither    *)
(* the displayed items, the loading flag nor the error message.            *)
C11_PersistFailureHarmless ==
  /\ [][\A p \in pendingSaves' \ pendingSaves :
          /\ ~isLoading'
          /\ p.page = "video" => generatedVideos' = p.op
          /\ p.page = "image" => generatedImages' = p.op]_vars
  /\ [][(\E p \in pendingSaves : p \notin pendingSaves') => UNCHANGED uiVars]_vars

C11_Witness ==
  /\ \E o \in Ops : opState[o] = "success" /\ historyCalls[o] = 1 /\ generatedVideos = o
  /\ \E o \in Ops : opState[o] = "imaged" /\ historyCalls[o] = 1
  /\ pendingSaves = {}
  /\ historyDir = {}
  /\ ~isLoading
  /\ generationErrorMsg = ""

(* a step in which an awaited uploadMetadataJSON throws *)
MirrorThrows == recorder.phase = "mirror" /\ recorder' # recorder /\ recorder'.last = "throw"
(* the items of the recorder r for which saveGenerationMetadata was not called yet *)
UnsavedItems(r) == IF r.page = "edit" THEN (r.idx + 1)..r.n ELSE {}

(* C12: when uploadMetadataJSON throws, the records written so far are     *)
(* kept and the recorder goes on: it does not end while an item of the     *)
(* generation has had no record written.                                   *)
C12_MirrorIsBestEffort ==
  [][MirrorThrows =>
       /\ historyDir' = historyDir
       /\ recorder'.phase = "done" => UnsavedItems(recorder) = {}]_vars

(* C16: in every record a performance field other than the two timestamps  *)
(* is present only if the backend reported it, with the reported value.    *)
C16_NoFabricatedMetrics ==
  \A rec \in historyDir : \A k \in MetricKeys :
    rec.performance[k] # ABSENT =>
      (rec.input.report[k] # UNDEFINED /\ rec.performance[k] = rec.input.report[k])

(* C17: the parameters of every record have no entry whose value is an     *)
(* empty string, null or undefined, and keep the form's 0 and false values.*)
C17_ParametersFiltered ==
  \A rec \in historyDir :
    /\ \A k \in ParamKeys : rec.parameters[k] \notin {"", "null", UNDEFINED}
    /\ \A k \in DOMAIN rec.input.form :
         rec.input.form[k] \in {"0", "false"} => rec.parameters[k] = rec.input.form[k]

(* C18: a record has a cost entry only if the generation reported token    *)
(* usage.                                                                  *)
C18_CostOnlyWithTokens ==
  \A rec \in historyDir : rec.cost # ABSENT => rec.input.report.tokensUsed # UNDEFINED

(* C19: a step leaves every record of the store as it is, or removes it in *)
(* a deleteGenerationSession or clearAllHistory step; in particular saving *)
(* a record changes no record saved before.                                *)
C19_AppendOnly ==
  [][\A rec \in historyDir :
       \/ rec \in historyDir'
       \/ /\ \A r2 \in historyDir' : r2.id # rec.id
          /\ (deleteGenerationSession \/ clearAllHistory)]_vars

C19_Witness ==
  /\ recorder.phase = "done"
  /\ recorder.last = "ok"
  /\ recorder.run = 2
  /\ \E r1, r2 \in historyDir : r1.id[1] = 1 /\ r2.id[1] = 2 /\ r1.input # r2.input

(* C20: the form data passed with every status check of an operation, and *)
(* the form data its history record is built from and stored with, are the *)
(* form data the operation was submitted with, whatever the form holds by  *)
(* then.                                                                   *)
C20_SubmittedFormIsUsed ==
  /\ [](\A o \in Ops : checkedForm[o] \in {NoForm, submittedForm[o]})
  /\ [](\A p \in pendingSaves : p.page = "video" => p.form = submittedForm[p.op])
  /\ [][\A p \in pendingSaves \ pendingSaves' : \A rec \in historyDir' \ historyDir :
          p.page = "video" =>
            \A k \in DOMAIN submittedForm[p.op] : rec.parameters[k] = submittedForm[p.op][k]]_vars

C20_Witness ==
  \E o \in Ops :
    /\ opState[o] = "success"
    /\ submittedForm[o] # formData
    /\ checkedForm[o] = submittedForm[o]
    /\ \E rec \in historyDir : rec.type = "video" /\ rec.input.form = submittedForm[o]
    /\ \A rec \in historyDir : rec.input.form # formData

(* the operation the poll driver is working on changes nothing else in a   *)
(* step that consumes one of its status results                            *)
ActiveLoopResult == pollingOperation # NULL /\ ResultArrived(pollingOperation)

(* C21: the attempt counter changes only by becoming 0 in a step that      *)
(* starts an operation or by growing by 1 in a step that issues a status   *)
(* check for the current operation, every such check makes it grow by 1,   *)
(* and the interval changes only in a start or in a step of the current    *)
(* operation's loop; so the counter is the number of status checks issued  *)
(* for the current operation since its start.                              *)
C21_CounterOwnedByActiveLoop ==
  [][/\ pollingAttemptsRef' # pollingAttemptsRef =>
          \/ pollingAttemptsRef' = 0 /\ \E o \in Ops : PollingStarted(o)
          \/ /\ pollingAttemptsRef' = pollingAttemptsRef + 1
             /\ pollingOperation # NULL
             /\ CheckIssued(pollingOperation)
     /\ (pollingOperation # NULL /\ CheckIssued(pollingOperation)) =>
          pollingAttemptsRef' = pollingAttemptsRef + 1
     /\ pollingIntervalRef' # pollingIntervalRef =>
          ((\E o \in Ops : PollingStarted(o)) \/ ActiveLoopResult)]_vars

(* C22: when a status result of the current operation is processed with    *)
(* the attempt counter at MAX_POLLING_ATTEMPTS, the loop ends in that      *)
(* step: no timer is scheduled, the interval is not advanced, and unless   *)
(* the result was a done result or a throw the operation ends in timeout   *)
(* with the timeout message.                                               *)
C22_TimeoutWhileProcessingResult ==
  [][\A o \in Ops :
       (/\ ResultArrived(o)
        /\ pollingOperation = o
        /\ opState[o] = "polling"
        /\ pollingAttemptsRef = MAX_POLLING_ATTEMPTS) =>
          /\ timers' \ timers = {}
          /\ pollingIntervalRef' = pollingIntervalRef
          /\ opState'[o] \in DoneStates
          /\ opState'[o] = "timeout" => generationErrorMsg' = "timeout"]_vars

(* min(6000 * 1.2^(k-1), 60000) in whole milliseconds *)
RECURSIVE IntervalAt(_)
IntervalAt(k) == IF k <= 1 THEN INITIAL_POLLING_INTERVAL_MS ELSE NextInterval(IntervalAt(k - 1))

(* C23: every scheduled poll, the first one included, goes through the     *)
(* backoff policy: the k-th poll scheduled for an operation (the one       *)
(* scheduled after k-1 status checks) is based on min(6000 * 1.2^(k-1),    *)
(* 60000) ms, its delay is within the rounded jitter range of that base,   *)
(* and scheduling it has advanced the base interval.                       *)
C23_FirstPollThroughBackoff ==
  scheduledDelay # 0 =>
    /\ scheduledBase = IntervalAt(pollingAttemptsRef + 1)
    /\ pollingIntervalRef = NextInterval(scheduledBase)
    /\ C15_DelayWithinRoundedJitter

(* the text expected for a reported error e: no leading 'Error: ' prefix,  *)
(* and the access-request text naming the label of a listed model          *)
PrefixesRemoved(shown) == shown.prefixes = 0
Rewritten(e, shown) ==
  e.body = "notfound" =>
    /\ shown.body = "access"
    /\ shown.model = e.model
    /\ e.model \in modelOptions => shown.named = "label"

(* C24: the text shown for an error the backend reported for a video       *)
(* operation, at submission or through a done status result, has no        *)
(* leading 'Error: ' prefix, keeps the rest of the reported text, and for  *)
(* the model-not-found text is the access-request text naming the model's  *)
(* label.                                                                  *)
C24_BackendErrorPresented ==
  (errorPath \in {"submission", "status"} /\ shownError # NoMessage) =>
    /\ PrefixesRemoved(shownError)
    /\ Rewritten(reportedError, shownError)
    /\ reportedError.body = "other" => shownError.body = "other"

(* a video operation is being polled: its handle is set and a timer of it  *)
(* is pending or a status check of it is in flight                         *)
BeingPolled(o) ==
  /\ pollingOperation = o
  /\ (inflight[o] > 0 \/ \E t \in timers : t.op = o)

(* C25: whenever a video operation is being polled, the loading flag is    *)
(* true.                                                                   *)
C25_LoadingWhilePolling == \A o \in Ops : BeingPolled(o) => isLoading

(* C26: the step that applies an empty done result to a polled operation   *)
(* sets the no-results message, turns loading off, clears the handle and   *)
(* leaves the history alone; an operation that ended so has no status      *)
(* check issued for it afterwards and never has a history recorder call.   *)
C26_EmptyResultEndsLoop ==
  /\ [][\A o \in Ops :
          /\ (opState[o] = "polling" /\ opState'[o] = "noresult") =>
                /\ generationErrorMsg' = EmptyResultMsg
                /\ ~isLoading'
                /\ pollingOperation' = NULL
                /\ UNCHANGED historyCalls
          /\ opState[o] = "noresult" => ~CheckIssued(o)]_vars
  /\ [](\A o \in Ops : opState[o] = "noresult" => historyCalls[o] = 0)

(***************************************************************************)
(* The image cache (ImageCacheStorage): a list of at most MAX_CACHE_SIZE   *)
(* images in localStorage, a component that shows and changes its own copy *)
(* of it, and two exported functions that work on the stored list.         *)
(***************************************************************************)
(* images.some((img) => img.base64Image === base64Image) *)
Exists(images, base64Image) == \E p \in 1..Len(images) : images[p].base64Image = base64Image

(* [newImage, ...images], cut to MAX_CACHE_SIZE *)
WithNewImage(images, newImage) ==
  SubSeq(<<newImage>> \o images, 1, Min(Len(images) + 1, MAX_CACHE_SIZE))

(* loadCachedImages(): the stored list becomes the component's list when   *)
(* there is an item; without one the component keeps what it has           *)
loadCachedImages(current) == IF cacheExists THEN storedCache ELSE current

(* images.filter((img) => img.id !== id) *)
WithoutId(images, id) == SelectSeq(images, LAMBDA img : img.id # id)

ImageIds(images) == {images[p].id : p \in 1..Len(images)}

CacheInit ==
  /\ PageInit
  /\ ErrorVarsInit
  /\ StoreVarsInit
  /\ CacheVarsInit

(* the component mounts: useState([]), then the effect loads the list *)
CacheMount ==
  /\ ~mounted
  /\ mounted' = TRUE
  /\ cachedImages' = loadCachedImages(<<>>)
  /\ UNCHANGED <<cacheExists, storedCache, cacheClock, contentsSeen, removedIds,
                 pollVars, backoffVars, historyVars, errorVars, storeVars>>

CacheUnmount ==
  /\ mounted
  /\ mounted' = FALSE
  /\ cachedImages' = <<>>
  /\ UNCHANGED <<cacheExists, storedCache, cacheClock, contentsSeen, removedIds,
                 pollVars, backoffVars, historyVars, errorVars, storeVars>>

(* onDrop / handleDriveImageSelect: addImageToCacheInternal(base64Image), *)
(* then the refresh trigger reloads the list; quota = FALSE:              *)
(* localStorage.setItem throws and saveCachedImages sets nothing          *)
onImageAdded ==
  \E base64Image \in 1..Min(contentsSeen + 1, MaxImages), quota \in BOOLEAN :
    /\ mounted
    /\ contentsSeen' = IF base64Image > contentsSeen THEN base64Image ELSE contentsSeen
    /\ IF Exists(cachedImages, base64Image)
       THEN /\ cachedImages' = loadCachedImages(cachedImages)
            /\ UNCHANGED <<cacheExists, storedCache, cacheClock>>
       ELSE /\ cacheClock < MaxCacheAdds
            /\ cacheClock' = cacheClock + 1
            /\ LET updatedImages == WithNewImage(cachedImages, CachedImage(cacheClock + 1, base64Image))
               IN IF quota
                  THEN /\ cacheExists' = TRUE
                       /\ storedCache' = updatedImages
                       /\ cachedImages' = updatedImages
                  ELSE /\ cachedImages' = loadCachedImages(cachedImages)
                       /\ UNCHANGED <<cacheExists, storedCache>>
    /\ UNCHANGED <<mounted, removedIds, pollVars, backoffVars, historyVars, errorVars, storeVars>>

(* deleteImage(id), for an image the component shows *)
deleteImage ==
  \E id \in ImageIds(cachedImages) :
    /\ mounted
    /\ cacheExists' = TRUE
    /\ storedCache' = WithoutId(cachedImages, id)
    /\ cachedImages' = WithoutId(cachedImages, id)
    /\ removedIds' = removedIds \cup {id}
    /\ UNCHANGED <<mounted, cacheClock, contentsSeen,
                   pollVars, backoffVars, historyVars, errorVars, storeVars>>

(* the exported addImageToCache(base64Image): works on the stored list and *)
(* tells the component with the imageCacheUpdated event                    *)
addImageToCache ==
  \E base64Image \in 1..Min(contentsSeen + 1, MaxImages), quota \in BOOLEAN :
    /\ contentsSeen' = IF base64Image > contentsSeen THEN base64Image ELSE contentsSeen
    /\ IF Exists(storedCache, base64Image)
       THEN UNCHANGED <<cacheExists, storedCache, cachedImages, cacheClock>>
       ELSE /\ cacheClock < MaxCacheAdds
            /\ cacheClock' = cacheClock + 1
            /\ LET images == WithNewImage(storedCache, CachedImage(cacheClock + 1, base64Image))
               IN IF quota
                  THEN /\ cacheExists' = TRUE
                       /\ storedCache' = images
                       /\ cachedImages' = IF mounted THEN images ELSE cachedImages
                  ELSE UNCHANGED <<cacheExists, storedCache, cachedImages>>
    /\ UNCHANGED <<mounted, removedIds, pollVars, backoffVars, historyVars, errorVars, storeVars>>

(* the exported clearImageCache(): localStorage.removeItem, no event *)
clearImageCache ==
  /\ cacheExists' = FALSE
  /\ storedCache' = <<>>
  /\ removedIds' = removedIds \cup ImageIds(storedCache)
  /\ UNCHANGED <<mounted, cachedImages, cacheClock, contentsSeen,
                 pollVars, backoffVars, historyVars, errorVars, storeVars>>

CacheNext ==
  \/ CacheMount
  \/ CacheUnmount
  \/ onImageAdded
  \/ deleteImage
  \/ addImageToCache
  \/ clearImageCache

CacheSpec == CacheInit /\ [][CacheNext]_vars

(***************************************************************************)
(* The history store, as its callers see it.                               *)
(***************************************************************************)
Loaded == {lastCall.data[p] : p \in 1..Len(lastCall.data)}
JustLoaded == lastCall.fn = "load"

(* C27: while the store holds at most 30 records, a load returns exactly   *)
(* the records saved with success and not deleted or cleared since, each   *)
(* as it was saved (a saved record is returned, a deleted one is not, a    *)
(* delete of an id that is not stored changes nothing, after a clear the   *)
(* list is empty); and a delete succeeds whatever the id.                  *)
C27_SaveLoadDeleteClear ==
  /\ (JustLoaded /\ Cardinality(savedRecords) <= HISTORY_LIMIT)
       => (lastCall.success /\ Loaded = {JsonRoundTrip(r) : r \in savedRecords})
  /\ lastCall.fn = "delete" => lastCall.success

ReadableRecords == {e.meta : e \in {x \in AllEntries : Readable(x)}}
(* C28: a load succeeds; it returns at most 30 records, newest time stamp  *)
(* first; they are the 30 most recent of the records in the store (all of  *)
(* them when there are fewer), so a session without a readable record      *)
(* costs nothing; without a history directory the list is empty.           *)
C28_LoadReturnsMostRecent ==
  JustLoaded =>
    /\ lastCall.success
    /\ Len(lastCall.data) <= HISTORY_LIMIT
    /\ \A p, q \in 1..Len(lastCall.data) :
         p < q => lastCall.data[p].timestamp >= lastCall.data[q].timestamp
    /\ historyExists =>
         /\ Loaded \subseteq ReadableRecords
         /\ Len(lastCall.data) = Min(Cardinality(ReadableRecords), HISTORY_LIMIT)
         /\ \A r \in ReadableRecords \ Loaded : \A x \in Loaded : x.timestamp >= r.timestamp
    /\ ~historyExists => lastCall.data = <<>>

(* C29: the path saveGenerationMetadata creates and writes below, and the  *)
(* path deleteGenerationSession removes, lies in the history directory,    *)
(* whatever the id.                                                        *)
C29_OnlyInsideHistoryDir ==
  lastCall.fn \in {"save", "delete"} => InsideHistoryDir(lastCall.path)


(* C30: the stored image cache holds at most 5 images, no two with the    *)
(* same base64 content, newest first, and none of them is an image that    *)
(* deleteImage or clearImageCache removed (an image added again is a new   *)
(* image with a new id).                                                   *)
C30_StoredCacheWellFormed ==
  /\ Len(storedCache) <= MAX_CACHE_SIZE
  /\ \A p, q \in 1..Len(storedCache) :
       p < q => /\ storedCache[p].base64Image # storedCache[q].base64Image
                /\ storedCache[p].timestamp >= storedCache[q].timestamp
  /\ ImageIds(storedCache) \cap removedIds = {}

====
